---------------------------- MODULE Spec2Model ----------------------------
(***************************************************************************)
(* typos: shortest edit-path between two words.                            *)
(*                                                                         *)
(*   distance/path.rs  PathMultiCost<U>: the multi-bucket cost vector      *)
(*   distance/word.rs  path_cost / edit_distance over the Levenshtein      *)
(*                     distance                                            *)
(*   distance.rs       find_shortest_path and the Display of a cost        *)
(*                                                                         *)
(* A PathMultiCost<u8> is modelled as a tuple of MAX_DIMENSION naturals,   *)
(* data[k] of the source being element k+1 of the tuple.  A word is a      *)
(* tuple of one-letter strings.                                            *)
(***************************************************************************)
EXTENDS Integers, Sequences, FiniteSets, TLC

VARIABLES a, b,             \* PathMultiCost operands
          total, adds,      \* a cost accumulated by additions, and how many
          shown,            \* the last Display rendering ("" before any)
          w1, w2, w3,       \* words handed to path_cost / edit_distance
          stepc, heur,      \* their path_cost and edit_distance results
          start, stop, words, \* the arguments of find_shortest_path
          algorithms,       \* the algorithms it is called with, in order
          found             \* the result of each algorithm, once it has run

vars == <<a, b, total, adds, shown, w1, w2, w3, stepc, heur,
          start, stop, words, algorithms, found>>

costVars == <<a, b, total, adds, shown>>
wordVars == <<w1, w2, w3, stepc, heur>>
searchVars == <<start, stop, words, algorithms, found>>

(***************************************************************************)
(* Program constants.                                                      *)
(***************************************************************************)
MAX_DIMENSION == 20

\* EditDistance = u8: the scalar's largest value and its modulus.
U8_MAX == 255
U8_MOD == 256

(***************************************************************************)
(* Bounds of the model.                                                    *)
(***************************************************************************)
\* bucket values sampled: 0..SmallMax, and the largest scalar value
SmallMax == 1
\* short words the specifications draw from: the shortest words over the
\* letters a and b, in order of length
NumShortWords == 5
\* lengths of the unary words a^n the word specification adds to the short ones
MidLen == 10
ClampLen == 21
LongLen == 256
\* hops of a walk whose step costs are added up
MaxHops == 3
\* words of a dictionary of the search specification
MaxDict == 2

Min(x, y) == IF x <= y THEN x ELSE y

(***************************************************************************)
(* distance/path.rs                                                        *)
(***************************************************************************)
Buckets == 1..MAX_DIMENSION

\* [U::zero(); MAX_DIMENSION]
zero_data == [k \in Buckets |-> 0]

\* PathMultiCost::new(cost, dimension): data[min(MAX_DIMENSION - 1,
\* MAX_DIMENSION - 1 - dimension)] = cost.  The subtraction is on usize: the
\* callers pass dimension <= MAX_DIMENSION - 1.
new(cost, dimension) ==
    [zero_data EXCEPT
        ![Min(MAX_DIMENSION - 1, MAX_DIMENSION - 1 - dimension) + 1] = cost]

\* Bounded::min_value / max_value, with u8::min_value() = 0
min_value == new(0, 0)
max_value == new(U8_MAX, MAX_DIMENSION - 1)

\* Zero::zero and Zero::is_zero
zero == new(0, 0)
is_zero(x) == \A k \in Buckets : x[MAX_DIMENSION + 1 - k] = 0

\* PartialEq::eq
eq(x, y) == x = y

\* Ord::cmp: the first differing pair of data, from data[0], decides
RECURSIVE cmp_from(_, _, _)
cmp_from(x, y, k) ==
    IF k > MAX_DIMENSION THEN "Equal"
    ELSE IF x[k] > y[k] THEN "Greater"
    ELSE IF x[k] < y[k] THEN "Less"
    ELSE cmp_from(x, y, k + 1)

cmp(x, y) == cmp_from(x, y, 1)

\* PartialOrd::partial_cmp: the arrays' own (lexicographic) comparison
partial_cmp_rev(x, y) ==
    LET differ == {k \in Buckets : x[k] # y[k]}
    IN  IF differ = {} THEN "Equal"
        ELSE LET k == CHOOSE i \in differ : \A j \in differ : i >= j
             IN  IF x[k] < y[k] THEN "Less" ELSE "Greater"
partial_cmp(x, y) ==
    LET differ == {k \in Buckets : x[k] # y[k]}
    IN  IF differ = {} THEN "Equal"
        ELSE LET k == CHOOSE i \in differ : \A j \in differ : i <= j
             IN  IF x[k] < y[k] THEN "Less" ELSE "Greater"

\* the comparison operators of Rust, which PartialOrd provides
lt(x, y) == partial_cmp(x, y) = "Less"
le(x, y) == partial_cmp(x, y) \in {"Less", "Equal"}
gt(x, y) == partial_cmp(x, y) = "Greater"
ge(x, y) == partial_cmp(x, y) \in {"Greater", "Equal"}

\* Add::add: bucket by bucket, e.checked_add(&array[i]) being None when the
\* sum is above the scalar maximum, and the bucket then U::max_value()
add_wrapping(x, y) == [k \in Buckets |-> (y[k] + x[k]) % U8_MOD]
add_keep(x, y) ==
    [k \in Buckets |-> IF y[k] + x[k] > U8_MAX THEN x[k] ELSE y[k] + x[k]]
\* the turns i.. of the for_each over rhs.data, on the copy of self.data
RECURSIVE add_each(_, _, _)
add_each(array, rhs, i) ==
    IF i > MAX_DIMENSION THEN array
    ELSE LET s == rhs[i] + array[i]
         IN  add_each([array EXCEPT ![i] = IF s > U8_MAX THEN U8_MAX ELSE s],
                      rhs, i + 1)
add(x, y) == add_each(x, y, 1)

\* PathMultiCost::get_cost: (value, MAX_DIMENSION - k) of every non-zero
\* data[k], in the order of k
RECURSIVE get_cost_from(_, _)
get_cost_from(x, k) ==
    IF k > MAX_DIMENSION THEN <<>>
    ELSE (IF x[k] # 0 THEN << <<x[k], MAX_DIMENSION - (k - 1)>> >> ELSE <<>>)
         \o get_cost_from(x, k + 1)

get_cost(x) == get_cost_from(x, 1)

(***************************************************************************)
(* distance.rs: Display for PathMultiCost                                  *)
(***************************************************************************)
\* cost.iter().rev()
rev(s) == [i \in 1..Len(s) |-> s[Len(s) + 1 - i]]

\* format!("{} {}-letter mutation", v, count)
term(p) == ToString(p[1]) \o " " \o ToString(p[2]) \o "-letter mutation"

\* .join(" + ")
RECURSIVE join(_, _)
join(strs, sep) ==
    IF Len(strs) = 0 THEN ""
    ELSE IF Len(strs) = 1 THEN strs[1]
    ELSE strs[1] \o sep \o join(Tail(strs), sep)

fmt_forward(x) ==
    IF get_cost(x) = <<>> THEN "0 mutation"
    ELSE join([i \in 1..Len(get_cost(x)) |-> term(get_cost(x)[i])], " + ")
fmt(x) ==
    IF get_cost(x) = <<>> THEN "0 mutation"
    ELSE LET cost == rev(get_cost(x))
         IN  join([i \in 1..Len(cost) |-> term(cost[i])], " + ")

(***************************************************************************)
(* The edit_distance crate: Levenshtein distance, one row at a time over   *)
(* the letters of the longer word.                                         *)
(***************************************************************************)
Min3(x, y, z) == Min(x, Min(y, z))

\* one pass of the inner loop: the row after letter ca of the longer word;
\* row[j + 1] is cur[j] of the crate, done holds the entries already
\* rewritten, and entries lo..hi are rewritten next, in order (split in
\* halves, like the outer loop below)
RECURSIVE lev_row(_, _, _, _, _, _)
lev_row(ca, short, row, done, lo, hi) ==
    IF lo > hi THEN done
    ELSE IF lo = hi
    THEN Append(done,
             Min3(row[lo] + 1,
                  done[lo - 1] + 1,
                  row[lo - 1] + (IF ca = short[lo - 1] THEN 0 ELSE 1)))
    ELSE LET mid == (lo + hi) \div 2
             left == lev_row(ca, short, row, done, lo, mid)
         IN  IF Len(left) = mid
             THEN lev_row(ca, short, row, left, mid + 1, hi)
             ELSE <<>>

\* the outer loop over letters lo..hi of the longer word, in order (split in
\* halves, so that a long word does not nest one evaluation per letter)
RECURSIVE lev_rows(_, _, _, _, _)
lev_rows(long, short, row, lo, hi) ==
    IF lo > hi THEN row
    ELSE IF lo = hi
    THEN lev_row(long[lo], short, row, <<lo>>, 2, Len(row))
    ELSE LET mid == (lo + hi) \div 2
             left == lev_rows(long, short, row, lo, mid)
         IN  IF Len(left) = Len(row)
             THEN lev_rows(long, short, left, mid + 1, hi)
             ELSE <<>>

RECURSIVE lev_table(_, _)
lev_table(x, y) ==
    IF Len(x) < Len(y) THEN lev_table(y, x)
    ELSE IF Len(x) = 0 THEN Len(y)
    ELSE IF Len(y) = 0 THEN Len(x)
    ELSE lev_rows(x, y, [j \in 1..(Len(y) + 1) |-> j - 1],
                  1, Len(x))[Len(y) + 1]

\* the length of the longest common prefix of two words
common_prefix(x, y) ==
    LET n == Min(Len(x), Len(y))
        differ == {i \in 1..n : x[i] # y[i]}
    IN  IF differ = {} THEN n
        ELSE (CHOOSE i \in differ : \A j \in differ : i <= j) - 1

\* edit_distance::edit_distance(a, b).  A common prefix does not change the
\* distance, and is left out of the table so that two long words with a long
\* common prefix stay cheap to compare.
levenshtein(x, y) ==
    LET p == common_prefix(x, y)
    IN  lev_table(SubSeq(x, p + 1, Len(x)), SubSeq(y, p + 1, Len(y)))

(***************************************************************************)
(* distance/word.rs                                                        *)
(***************************************************************************)
\* `n as EditDistance`: a usize cast to u8 keeps the low eight bits
as_u8(n) == n % U8_MOD

\* path_cost: the minimum for distance 0, else one edit in the bucket of the
\* distance, distances of MAX_DIMENSION and more sharing the last bucket
path_cost_unit(x, y) ==
    IF levenshtein(x, y) = 0 THEN min_value ELSE new(1, 0)
path_cost(x, y) ==
    LET n == levenshtein(x, y)
    IN  IF n = 0 THEN min_value
        ELSE new(1, Min(n, MAX_DIMENSION) - 1)

\* edit_distance: the distance, cast to u8, in the bucket of one-letter edits
edit_distance(x, y) == new(as_u8(levenshtein(x, y)), 0)

(***************************************************************************)
(* distance.rs: the closures find_shortest_path hands to the search, which *)
(* capture its arguments stop and words.                                   *)
(***************************************************************************)
\* get_successors: every word of `words`, in order, with its path_cost
get_successors(current_word) ==
    [i \in 1..Len(words) |-> <<words[i], path_cost(current_word, words[i])>>]

\* heuristic and stop_condition
heuristic(word) == edit_distance(word, stop)
stop_condition_listed(word) ==
    word = stop /\ \E i \in 1..Len(words) : words[i] = word
stop_condition(word) == word = stop

\* Option<(Vec<&str>, PathMultiCost)>
None == [some |-> FALSE]
Some(path, cost) == [some |-> TRUE, path |-> path, cost |-> cost]

(***************************************************************************)
(* The pathfinding crate.  `parents` is its IndexMap<N, (usize, C)>: a     *)
(* sequence of [node, parent, cost] in insertion order, parent 0 standing  *)
(* for usize::max_value().                                                 *)
(***************************************************************************)
\* IndexMap::get_full: the index of a node, 0 when it has no entry
index_of(parents, node) ==
    LET at == {i \in 1..Len(parents) : parents[i].node = node}
    IN  IF at = {} THEN 0 ELSE CHOOSE i \in at : TRUE

\* reverse_path: from the entry at `index` up the parents to the start
RECURSIVE reverse_path(_, _)
reverse_path(parents, index) ==
    IF index = 0 THEN <<>>
    ELSE Append(reverse_path(parents, parents[index].parent),
                parents[index].node)

\* Ord for SmallestCostHolder (astar: the smaller estimated cost is the
\* greater holder, then the greater cost) and for SmallestHolder (dijkstra:
\* the smaller cost is the greater holder)
holder_cmp(x, y) ==
    IF "estimated_cost" \in DOMAIN x
    THEN IF cmp(y.estimated_cost, x.estimated_cost) = "Equal"
         THEN cmp(x.cost, y.cost)
         ELSE cmp(y.estimated_cost, x.estimated_cost)
    ELSE cmp(y.cost, x.cost)

\* std BinaryHeap, a max-heap in a vector; position p is element p + 1
RECURSIVE sift_up(_, _, _, _)
sift_up(heap, first, pos, elt) ==
    IF pos > first
    THEN LET parent == (pos - 1) \div 2
         IN  IF holder_cmp(elt, heap[parent + 1]) \in {"Less", "Equal"}
             THEN [heap EXCEPT ![pos + 1] = elt]
             ELSE sift_up([heap EXCEPT ![pos + 1] = heap[parent + 1]],
                          first, parent, elt)
    ELSE [heap EXCEPT ![pos + 1] = elt]

RECURSIVE sift_down_to_bottom(_, _, _)
sift_down_to_bottom(heap, pos, elt) ==
    LET child == 2 * pos + 1
        right == child + 1
    IN  IF child < Len(heap)
        THEN LET down ==
                    IF /\ right < Len(heap)
                       /\ holder_cmp(heap[child + 1], heap[right + 1])
                              # "Greater"
                    THEN right ELSE child
             IN  sift_down_to_bottom([heap EXCEPT ![pos + 1] = heap[down + 1]],
                                     down, elt)
        ELSE sift_up(heap, 0, pos, elt)

heap_push(heap, item) == sift_up(Append(heap, item), 0, Len(heap), item)

\* BinaryHeap::pop on a heap that is not empty: <<the greatest item, the rest>>
heap_pop(heap) ==
    LET last == heap[Len(heap)]
        rest == SubSeq(heap, 1, Len(heap) - 1)
    IN  IF rest = <<>> THEN <<last, rest>>
        ELSE <<rest[1], sift_down_to_bottom(rest, 0, last)>>

\* the entry of a successor: inserted when vacant, replaced when the new cost
\* is strictly smaller, else left alone.  <<parents, index or 0 for `continue`>>
enter(parents, successor, from, new_cost) ==
    LET j == index_of(parents, successor)
        e == [node |-> successor, parent |-> from, cost |-> new_cost]
    IN  IF j = 0 THEN <<Append(parents, e), Len(parents) + 1>>
        ELSE IF gt(parents[j].cost, new_cost)
             THEN <<[parents EXCEPT ![j] = e], j>>
             ELSE <<parents, 0>>

first_parents == <<[node |-> start, parent |-> 0, cost |-> zero]>>

\* astar: the `for (successor, move_cost) in successors` loop, from i on
RECURSIVE astar_successors(_, _, _, _, _, _)
astar_successors(to_see, parents, succ, i, index, cost) ==
    IF i > Len(succ) THEN <<to_see, parents>>
    ELSE LET new_cost == add(cost, succ[i][2])
             en == enter(parents, succ[i][1], index, new_cost)
         IN  IF en[2] = 0
             THEN astar_successors(to_see, parents, succ, i + 1, index, cost)
             ELSE astar_successors(
                      heap_push(to_see,
                          [estimated_cost |->
                               add(new_cost, heuristic(succ[i][1])),
                           cost |-> new_cost, index |-> en[2]]),
                      en[1], succ, i + 1, index, cost)

\* astar: the `while let Some(..) = to_see.pop()` loop
RECURSIVE astar_loop(_, _)
astar_loop(to_see, parents) ==
    IF to_see = <<>> THEN None
    ELSE LET popped == heap_pop(to_see)
             top == popped[1]
             entry == parents[top.index]
         IN  IF stop_condition(entry.node)
             THEN Some(reverse_path(parents, top.index), top.cost)
             ELSE IF gt(top.cost, entry.cost)
             THEN astar_loop(popped[2], parents)
             ELSE LET next == astar_successors(popped[2], parents,
                                  get_successors(entry.node), 1,
                                  top.index, top.cost)
                  IN  astar_loop(next[1], next[2])

astar ==
    astar_loop(<<[estimated_cost |-> zero, cost |-> zero, index |-> 1]>>,
               first_parents)

\* dijkstra: the loops of astar without a heuristic.  A long ladder takes
\* hundreds of turns of each loop, so the turns are split in halves and not
\* nested one inside the other; `state` is <<to_see, parents>>.
\* The `for (successor, move_cost) in successors` loop, turns lo..hi
RECURSIVE dijkstra_successors(_, _, _, _, _, _)
dijkstra_successors(state, succ, lo, hi, index, cost) ==
    IF lo > hi THEN state
    ELSE IF lo = hi
    THEN LET new_cost == add(cost, succ[lo][2])
             en == enter(state[2], succ[lo][1], index, new_cost)
         IN  IF en[2] = 0 THEN state
             ELSE <<heap_push(state[1], [cost |-> new_cost, index |-> en[2]]),
                    en[1]>>
    ELSE LET mid == (lo + hi) \div 2
             left == dijkstra_successors(state, succ, lo, mid, index, cost)
         IN  IF Len(left) = 2
             THEN dijkstra_successors(left, succ, mid + 1, hi, index, cost)
             ELSE left

\* reverse_path over a long ladder: 2^k steps up the parents from `index`,
\* <<the index reached, the nodes passed, the last one first>>
RECURSIVE climb(_, _, _, _)
climb(parents, index, nodes, k) ==
    IF index = 0 THEN <<index, nodes>>
    ELSE IF k = 0
    THEN <<parents[index].parent, <<parents[index].node>> \o nodes>>
    ELSE LET half == climb(parents, index, nodes, k - 1)
         IN  IF half[1] = 0 THEN half
             ELSE climb(parents, half[1], half[2], k - 1)

RECURSIVE long_reverse_path(_, _, _, _)
long_reverse_path(parents, index, nodes, k) ==
    LET up == climb(parents, index, nodes, k)
    IN  IF up[1] = 0 THEN up[2]
        ELSE long_reverse_path(parents, up[1], up[2], k + 1)

\* one turn of the `while let Some(..) = to_see.pop()` loop: the result when
\* the loop ends in this turn, else the next <<to_see, parents>>
dijkstra_turn(state) ==
    IF state[1] = <<>> THEN None
    ELSE LET popped == heap_pop(state[1])
             top == popped[1]
             entry == state[2][top.index]
         IN  IF stop_condition(entry.node)
             THEN Some(long_reverse_path(state[2], top.index, <<>>, 0),
                       entry.cost)
             ELSE IF gt(top.cost, entry.cost)
             THEN <<popped[2], state[2]>>
             ELSE LET succ == get_successors(entry.node)
                  IN  dijkstra_successors(<<popped[2], state[2]>>, succ,
                                          1, Len(succ), top.index, top.cost)

\* 2^k turns of the loop, or as many as it takes to end
RECURSIVE dijkstra_turns(_, _)
dijkstra_turns(state, k) ==
    IF DOMAIN state # 1..2 THEN state
    ELSE IF k = 0 THEN dijkstra_turn(state)
    ELSE LET half == dijkstra_turns(state, k - 1)
         IN  IF DOMAIN half # 1..2 THEN half
             ELSE dijkstra_turns(half, k - 1)

RECURSIVE run_dijkstra(_, _)
run_dijkstra(state, k) ==
    LET next == dijkstra_turns(state, k)
    IN  IF DOMAIN next # 1..2 THEN next
        ELSE run_dijkstra(next, k + 1)

dijkstra ==
    run_dijkstra(<<<<[cost |-> zero, index |-> 1]>>, first_parents>>, 0)

\* idastar.  A search ends Found(path, cost), Minimum(cost) or Impossible.
Found(path, cost) == [tag |-> "Found", path |-> path, cost |-> cost]
Minimum(m) == [tag |-> "Minimum", min |-> m]
Impossible == [tag |-> "Impossible"]

contains(path, node) == \E i \in 1..Len(path) : path[i] = node

\* sort_unstable_by on the third component: for the short slices of the
\* model the standard library sorts by insertion, each element moving left
\* past the elements strictly greater than it
RECURSIVE insert_tail(_, _)
insert_tail(sorted, x) ==
    IF sorted = <<>> THEN <<x>>
    ELSE IF cmp(x[3], sorted[Len(sorted)][3]) = "Less"
    THEN Append(insert_tail(SubSeq(sorted, 1, Len(sorted) - 1), x),
                sorted[Len(sorted)])
    ELSE Append(sorted, x)

RECURSIVE insertion_sort(_, _)
insertion_sort(sorted, rest) ==
    IF rest = <<>> THEN sorted
    ELSE insertion_sort(insert_tail(sorted, Head(rest)), Tail(rest))

\* the successors not yet on the path, as (node, cost, cost + heuristic)
neighbours(path) ==
    LET succ == get_successors(path[Len(path)])
        kept == SelectSeq(succ, LAMBDA e : ~contains(path, e[1]))
    IN  insertion_sort(<<>>,
            [i \in 1..Len(kept) |->
                <<kept[i][1], kept[i][2],
                  add(kept[i][2], heuristic(kept[i][1]))>>])

RECURSIVE idastar_search(_, _, _)
RECURSIVE idastar_neighbours(_, _, _, _, _, _)

\* search(path, cost, bound, ..)
idastar_search(path, cost, bound) ==
    LET f == add(cost, heuristic(path[Len(path)]))
    IN  IF gt(f, bound) THEN Minimum(f)
        ELSE IF stop_condition(path[Len(path)]) THEN Found(path, f)
        ELSE idastar_neighbours(path, cost, bound, neighbours(path), 1, <<>>)

\* its `for (node, extra, _) in neighbs` loop, from i on; min is <<>> for
\* None and <<m>> for Some(m), the smallest Minimum so far
idastar_neighbours(path, cost, bound, neighbs, i, min) ==
    IF i > Len(neighbs)
    THEN (IF min = <<>> THEN Impossible ELSE Minimum(min[1]))
    ELSE LET r == idastar_search(Append(path, neighbs[i][1]),
                                 add(cost, neighbs[i][2]), bound)
         IN  IF r.tag = "Found" THEN r
             ELSE IF r.tag = "Minimum"
             THEN idastar_neighbours(path, cost, bound, neighbs, i + 1,
                      IF min = <<>> THEN <<r.min>>
                      ELSE IF lt(r.min, min[1]) THEN <<r.min>> ELSE min)
             ELSE idastar_neighbours(path, cost, bound, neighbs, i + 1, min)

\* the loop of idastar over growing bounds
RECURSIVE idastar_loop(_)
idastar_loop(bound) ==
    LET r == idastar_search(<<start>>, zero, bound)
    IN  IF r.tag = "Found" THEN Some(r.path, r.cost)
        ELSE IF r.tag = "Minimum"
        THEN (IF eq(bound, r.min) THEN None ELSE idastar_loop(r.min))
        ELSE None

idastar == idastar_loop(heuristic(start))

\* fringe.  now and later are VecDeques of indices into parents.
remove(v, e) == SelectSeq(v, LAMBDA x : x # e)

\* the `for (successor, cost) in successors` loop of node i, from k on
RECURSIVE fringe_successors(_, _, _, _, _, _, _)
fringe_successors(now, later, parents, succ, k, i, g) ==
    IF k > Len(succ) THEN <<now, later, parents>>
    ELSE LET g_successor == add(g, succ[k][2])
             en == enter(parents, succ[k][1], i, g_successor)
             n == en[2]
         IN  IF n = 0
             THEN fringe_successors(now, later, parents, succ, k + 1, i, g)
             ELSE IF \E x \in 1..Len(later) : later[x] = n
             THEN fringe_successors(<<n>> \o now, remove(later, n), en[1],
                                    succ, k + 1, i, g)
             ELSE fringe_successors(<<n>> \o remove(now, n), later, en[1],
                                    succ, k + 1, i, g)

RECURSIVE fringe_round(_, _, _, _, _)
RECURSIVE fringe_loop(_, _, _, _)

\* the outer `loop`
fringe_loop(now, later, parents, flimit) ==
    IF now = <<>> THEN None
    ELSE fringe_round(now, later, parents, flimit, max_value)

\* the `while let Some(i) = now.pop_front()` loop of one round, then the swap
fringe_round(now, later, parents, flimit, fmin) ==
    IF now = <<>> THEN fringe_loop(later, now, parents, fmin)
    ELSE LET i == Head(now)
             g == parents[i].cost
             f == add(g, heuristic(parents[i].node))
         IN  IF gt(f, flimit)
             THEN fringe_round(Tail(now), Append(later, i), parents, flimit,
                               IF lt(f, fmin) THEN f ELSE fmin)
             ELSE IF stop_condition(parents[i].node)
             THEN Some(reverse_path(parents, i), g)
             ELSE LET next == fringe_successors(Tail(now), later, parents,
                                  get_successors(parents[i].node), 1, i, g)
                  IN  fringe_round(next[1], next[2], next[3], flimit, fmin)

fringe == fringe_loop(<<1>>, <<>>, first_parents, heuristic(start))

\* find_shortest_path(start, stop, words, algorithm) on the arguments held in
\* the state
find_shortest_path(algorithm) ==
    CASE algorithm = "Astar" -> astar
      [] algorithm = "Idastar" -> idastar
      [] algorithm = "Fringe" -> fringe
      [] algorithm = "Dijkstra" -> dijkstra

(***************************************************************************)
(* States shared by the specifications: the part of the state a            *)
(* specification does not use stays idle.                                  *)
(***************************************************************************)
NoWord == <<>>
NotRun == "not run"

IdleCost == a = zero /\ b = zero /\ shown = ""
IdleWord ==
    /\ w1 = NoWord /\ w2 = NoWord /\ w3 = NoWord
    /\ stepc = NotRun /\ heur = NotRun
IdleSearch ==
    /\ start = NoWord /\ stop = NoWord /\ words = <<>>
    /\ algorithms = <<>> /\ found = <<>>

(***************************************************************************)
(* The cost specification: two operands drawn from the sampled vectors,    *)
(* added one after the other into `total` (as a search accumulates the     *)
(* cost of a path), and `total` rendered by Display.  A third operand of   *)
(* an algebraic law ranges over all the sampled vectors.                   *)
(***************************************************************************)
SampleValues == (0..SmallMax) \cup {U8_MAX}

\* the bucket of the largest edits, and those of two-letter and one-letter edits
ActiveBuckets == {1, MAX_DIMENSION - 1, MAX_DIMENSION}

CostSamples ==
    {[k \in Buckets |-> IF k \in ActiveBuckets THEN f[k] ELSE 0] :
        f \in [ActiveBuckets -> SampleValues]}

operands == <<a, b>>

CostInit ==
    /\ a \in CostSamples /\ b \in CostSamples
    /\ total = zero /\ adds = 0 /\ shown = ""
    /\ IdleWord /\ IdleSearch

\* total = total + operand
Accumulate ==
    /\ adds < Len(operands)
    /\ total' = add(total, operands[adds + 1])
    /\ adds' = adds + 1
    /\ shown' = ""
    /\ UNCHANGED <<a, b, wordVars, searchVars>>

\* format!("{}", total)
Display ==
    /\ shown = ""
    /\ shown' = fmt(total)
    /\ UNCHANGED <<a, b, total, adds, wordVars, searchVars>>

CostNext == Accumulate \/ Display

CostSpec == CostInit /\ [][CostNext]_vars

(***************************************************************************)
(* The word specification: three words, their three step costs and their   *)
(* three heuristic costs (w1-w2, w2-w3, w1-w3), and a walk that hops       *)
(* between w1 and w2 or between w2 and w3 and adds up the step costs.      *)
(***************************************************************************)
\* the k-th word over the letters, by length and then by alphabet
RECURSIVE nth_word(_)
nth_word(k) ==
    IF k = 1 THEN <<>>
    ELSE Append(nth_word(k \div 2), IF k % 2 = 0 THEN "a" ELSE "b")

ShortWords == {nth_word(k) : k \in 1..NumShortWords}

Repeat(letter, n) == [i \in 1..n |-> letter]

WordSamples ==
    ShortWords \cup {Repeat("a", MidLen), Repeat("a", ClampLen),
                     Repeat("a", LongLen)}

WordInit ==
    /\ w1 \in WordSamples /\ w2 \in WordSamples /\ w3 \in WordSamples
    /\ stepc = NotRun /\ heur = NotRun
    /\ total = zero /\ adds = 0
    /\ IdleCost /\ IdleSearch

StepCosts ==
    /\ stepc = NotRun
    /\ stepc' = <<path_cost(w1, w2), path_cost(w2, w3), path_cost(w1, w3)>>
    /\ UNCHANGED <<w1, w2, w3, heur, costVars, searchVars>>

Heuristics ==
    /\ heur = NotRun
    /\ heur' = <<edit_distance(w1, w2), edit_distance(w2, w3),
                 edit_distance(w1, w3)>>
    /\ UNCHANGED <<w1, w2, w3, stepc, costVars, searchVars>>

\* one more hop of the walk: between w1 and w2 (i = 1) or w2 and w3 (i = 2)
Hop ==
    /\ stepc # NotRun
    /\ heur # NotRun
    /\ adds < MaxHops
    /\ \E i \in 1..2 :
        /\ total' = add(total, stepc[i])
        /\ adds' = adds + 1
    /\ UNCHANGED <<a, b, shown, wordVars, searchVars>>

WordNext == StepCosts \/ Heuristics \/ Hop

WordSpec == WordInit /\ [][WordNext]_vars

(***************************************************************************)
(* The search specification: a start word, a target and a candidate list,  *)
(* on which find_shortest_path runs once with each algorithm (in the order *)
(* of tests::test_compare).                                                *)
(***************************************************************************)
Algorithms == <<"Astar", "Fringe", "Idastar", "Dijkstra">>

SearchWords == ShortWords

distinct(x) == \A m, n \in 1..Len(x) : x[m] = x[n] => m = n

\* the candidate lists: a dictionary of distinct words, with or without the
\* target in front (main and the tests insert it, listed already or not)
Dictionaries ==
    {x \in UNION {[1..n -> SearchWords] : n \in 0..MaxDict} : distinct(x)}

SearchInit ==
    /\ start \in SearchWords /\ stop \in SearchWords
    /\ \E dict \in Dictionaries : words \in {dict, <<stop>> \o dict}
    /\ algorithms = Algorithms
    /\ found = <<>>
    /\ total = zero /\ adds = 0
    /\ IdleCost /\ IdleWord

\* the next algorithm runs: found gets its Option<(Vec<&str>, PathMultiCost)>
Search ==
    /\ Len(found) < Len(algorithms)
    /\ found' = Append(found, find_shortest_path(algorithms[Len(found) + 1]))
    /\ UNCHANGED <<start, stop, words, algorithms, costVars, wordVars>>

\* Display of the cost found by the algorithm that ran last
Report ==
    /\ Len(found) = Len(algorithms)
    /\ found[Len(found)].some
    /\ shown = ""
    /\ shown' = fmt(found[Len(found)].cost)
    /\ UNCHANGED <<a, b, total, adds, wordVars, searchVars>>

SearchNext == Search \/ Report

SearchSpec == SearchInit /\ [][SearchNext]_vars

(***************************************************************************)
(* The main specification: find_shortest_path runs once, with the one      *)
(* algorithm asked for, on a candidate list with the target in front, and  *)
(* the cost found is displayed.  The inputs are those of the search        *)
(* specification and one long word list: from a^3 the words a^2 and a^1    *)
(* and the U8_MAX words b^2, b^4, .. up to the target, two letters apart.  *)
(***************************************************************************)
LongStart == Repeat("a", 3)
LongStop == Repeat("b", 2 * U8_MAX)
LongDict ==
    <<Repeat("a", 2), Repeat("a", 1)>>
        \o [i \in 1..U8_MAX |-> Repeat("b", 2 * i)]

MainInit ==
    /\ \/ /\ start \in SearchWords /\ stop \in SearchWords
          /\ \E dict \in Dictionaries : words = <<stop>> \o dict
          /\ \E i \in 1..Len(Algorithms) : algorithms = <<Algorithms[i]>>
       \/ /\ start = LongStart /\ stop = LongStop
          /\ words = <<stop>> \o LongDict
          /\ algorithms = <<"Dijkstra">>
    /\ found = <<>>
    /\ total = zero /\ adds = 0
    /\ IdleCost /\ IdleWord

MainSpec == MainInit /\ [][SearchNext]_vars

(***************************************************************************)
(* Claims about find_shortest_path, checked under SearchSpec and MainSpec.  *)
(***************************************************************************)
AllRun == Len(found) = Len(algorithms)

WordSet == {words[i] : i \in 1..Len(words)}

\* the saturating sum of path_cost over hops lo..hi of a word sequence, from
\* acc on and in the order of the hops (split in halves for a long ladder)
RECURSIVE ladder_sum(_, _, _, _)
ladder_sum(q, acc, lo, hi) ==
    IF lo > hi THEN acc
    ELSE IF lo = hi THEN add(acc, path_cost(q[lo], q[lo + 1]))
    ELSE LET mid == (lo + hi) \div 2
             left == ladder_sum(q, acc, lo, mid)
         IN  IF DOMAIN left = Buckets
             THEN ladder_sum(q, left, mid + 1, hi)
             ELSE left

ladder_cost(q) == ladder_sum(q, zero, 1, Len(q) - 1)

\* the ladders of a short candidate list: the sequences of distinct words
\* from start to the target through candidate words, <<start>> when start is
\* the target, else start followed by candidate words of which the last is
\* the target
Between == WordSet \ {start, stop}

Ladders ==
    IF start = stop THEN {<<start>>}
    ELSE IF stop \notin WordSet THEN {}
    ELSE {<<start>> \o x \o <<stop>> :
             x \in {y \in UNION {[1..n -> Between] :
                                    n \in 0..Cardinality(Between)} :
                       distinct(y)}}

\* the ladders that leave start by another candidate word and join a
\* returned path at its third word
Detours(path) ==
    IF Len(path) < 3 THEN {}
    ELSE {<<start, w>> \o SubSeq(path, 3, Len(path)) : w \in WordSet}

\* C1: the four algorithms return the same outcome, all None or all Some
\* with the identical word sequence and the identical cost.
C1_SameOutcome ==
    (AllRun /\ algorithms = Algorithms) =>
        \A i, j \in 1..Len(found) : found[i] = found[j]

\* C2: a path returned by any algorithm begins with start, ends with the
\* target, continues through candidate words only, its cost is the saturating
\* sum of path_cost over its consecutive words, and no word sequence from
\* start to the target through candidate words costs strictly less (of a
\* candidate list of up to MaxDict + 1 words, every ladder is compared; of a
\* longer one, the detours of the returned path).
C2_ShortestPath ==
    \A i \in 1..Len(found) :
        /\ found[i].some =>
            LET path == found[i].path
            IN  /\ path[1] = start
                /\ path[Len(path)] = stop
                /\ \A k \in 2..Len(path) : path[k] \in WordSet
                /\ eq(found[i].cost, ladder_cost(path))
                /\ \A q \in Detours(path) :
                    ~lt(ladder_cost(q), found[i].cost)
        /\ Len(words) <= MaxDict + 1 =>
            \A q \in Ladders :
                found[i].some /\ ~lt(ladder_cost(q), found[i].cost)

\* C3: when start is the target, every algorithm returns the one-word path
\* [start] with the all-zero cost, whose get_cost() is empty, whatever the
\* candidate list.
C3_Identity ==
    start = stop =>
        \A i \in 1..Len(found) :
            /\ found[i].some
            /\ found[i].path = <<start>>
            /\ found[i].cost = zero_data
            /\ get_cost(found[i].cost) = <<>>

\* start is the target, twice in the candidate list, and the four have run
C3_Witness ==
    /\ AllRun /\ start = stop
    /\ Len(words) >= 2 /\ words[1] = stop /\ words[2] = stop

(***************************************************************************)
(* Claims about distance/word.rs, checked under WordSpec.                  *)
(***************************************************************************)
\* the raw Levenshtein distances of the three pairs
d12 == levenshtein(w1, w2)
d23 == levenshtein(w2, w3)
d13 == levenshtein(w1, w3)
raw == <<d12, d23, d13>>

\* C4: for every pair of words, path_cost >= edit_distance in the order of
\* PathMultiCost, and at raw distance 0 both are the all-zero vector.
C4_HeuristicAdmissible ==
    (stepc # NotRun /\ heur # NotRun) =>
        \A i \in 1..3 :
            /\ ge(stepc[i], heur[i])
            /\ raw[i] = 0 => (stepc[i] = zero_data /\ heur[i] = zero_data)

\* a pair at distance 0 and a pair further apart than the scalar's range
C4_Witness ==
    /\ stepc # NotRun /\ heur # NotRun
    /\ d12 > U8_MAX /\ gt(stepc[1], heur[1])
    /\ d23 = 0 /\ eq(stepc[2], heur[2])

\* C5 (as claimed): edit_distance(a, b) + edit_distance(b, c) >=
\* edit_distance(a, c) for all words, whatever the raw distances.
C5_TriangleInequality ==
    heur # NotRun => ge(add(heur[1], heur[2]), heur[3])

\* C6: when both raw distances d(w1,w2) and d(w2,w3) are below
\* min(d(w1,w3), MAX_DIMENSION), the two step costs add up to strictly less
\* than the step cost of w1-w3, and so does the sum of any number of hops
\* whose step costs are those of w1-w2 and w2-w3.
C6_StepCostNotMetric ==
    (stepc # NotRun /\ d12 < Min(d13, MAX_DIMENSION)
                    /\ d23 < Min(d13, MAX_DIMENSION)) =>
        /\ lt(add(stepc[1], stepc[2]), stepc[3])
        /\ lt(total, stepc[3])

\* a walk of MaxHops hops under one step whose distance is clamped to the
\* last bucket
C6_Witness ==
    /\ stepc # NotRun /\ adds = MaxHops
    /\ d13 > MAX_DIMENSION
    /\ d12 \in 1..(MAX_DIMENSION - 1) /\ d23 \in 1..(MAX_DIMENSION - 1)
    /\ ~is_zero(total)

(***************************************************************************)
(* Claims about distance/path.rs and Display, checked under CostSpec.      *)
(***************************************************************************)
\* the exact sum of bucket k of the operands added so far
exact_sum(k) ==
    IF adds = 0 THEN 0 ELSE IF adds = 1 THEN a[k] ELSE a[k] + b[k]

C8_CommutativeMonoid ==
    /\ eq(add(a, zero), a) /\ eq(add(zero, a), a)
    /\ eq(add(a, b), add(b, a))
    /\ adds = 2 =>
        /\ eq(total, add(b, a))
        /\ \A z \in CostSamples : eq(add(total, z), add(a, add(b, z)))

\* two different non-zero operands added, a bucket of the sum saturated
C8_Witness ==
    /\ adds = 2 /\ a # b /\ ~is_zero(a) /\ ~is_zero(b)
    /\ \E k \in Buckets : a[k] + b[k] > U8_MAX
    /\ \E z \in CostSamples :
        \E k \in Buckets : a[k] + b[k] < U8_MAX /\ a[k] + b[k] + z[k] > U8_MAX

\* C9 (as claimed): addition is monotone on both operands, a <= b implies
\* a + z <= b + z and z + a <= z + b, saturated buckets included.
C9_Isotone ==
    \A z \in CostSamples :
        le(a, b) => (le(add(a, z), add(b, z)) /\ le(add(z, a), add(z, b)))

\* the terms of a rendering, one for each non-zero bucket among `order`
rendering(x, order) ==
    LET nz == SelectSeq(order, LAMBDA k : x[k] # 0)
    IN  IF nz = <<>> THEN "0 mutation"
        ELSE join([i \in 1..Len(nz) |->
                      ToString(x[nz[i]]) \o " "
                          \o ToString(MAX_DIMENSION + 1 - nz[i])
                          \o "-letter mutation"], " + ")

MostSignificantFirst == [i \in Buckets |-> i]
LeastSignificantFirst == [i \in Buckets |-> MAX_DIMENSION + 1 - i]

\* C10 (as claimed): Display lists one term for each non-zero bucket, the
\* largest granularity first, and "0 mutation" for the all-zero cost.
C10_DisplayMostSignificantFirst ==
    shown # "" => shown = rendering(total, MostSignificantFirst)

\* C10 (amended): Display lists one term "<count> <granularity>-letter
\* mutation" for each non-zero bucket and none for a zero bucket, joined by
\* " + ", the smallest granularity first, and "0 mutation" for the all-zero
\* cost; one two-letter and two one-letter edits render as
\* "2 1-letter mutation + 1 2-letter mutation".
C10_DisplayLeastSignificantFirst ==
    shown # "" =>
        /\ shown = rendering(total, LeastSignificantFirst)
        /\ is_zero(total) => shown = "0 mutation"
        /\ total = add(new(1, 1), new(2, 0)) =>
               shown = "2 1-letter mutation + 1 2-letter mutation"

\* the cost of one two-letter and two one-letter edits, rendered
C10_Witness ==
    /\ shown # ""
    /\ total = add(new(1, 1), add(new(1, 0), new(1, 0)))

\* C11 (as claimed): every PathMultiCost<u8> value, an operand or a cost
\* accumulated by additions, lies between min_value() and max_value().
C11_Bounded ==
    \A x \in {a, b, total} : ge(x, min_value) /\ le(x, max_value)

=============================================================================
